---------------------------- MODULE Spec2Model ----------------------------
(***************************************************************************)
(* A model of the pitch-perfect-practice backend (src/server.js).          *)
(*                                                                         *)
(* The server is one Node.js process.  Every callback (route handler up to *)
(* its first await, stream or subprocess event listener, timer callback    *)
(* together with the promise continuations it wakes) runs to completion    *)
(* before the next one starts, so each is one action here.                 *)
(*                                                                         *)
(* src/unnamed/part_000 is an earlier revision of the same file (no        *)
(* whole-request deadline, other timeout values); the definitions below    *)
(* follow src/server.js.                                                   *)
(***************************************************************************)
EXTENDS Integers, Sequences, FiniteSets, TLC

(***************************************************************************)
(* Bounds of the model.                                                    *)
(***************************************************************************)
NumReq == 2
MaxSweeps == 5
SpeedDen == 8
MaxSpeedNum == 40
MaxFiles == 3
MaxSeconds == 3725
MaxCount == 1500
MaxIter == 4
MaxSignals == 2
MaxConns == 2

(***************************************************************************)
(* Constants of the program.                                               *)
(***************************************************************************)
CleanupAgeMs == 900000
SweepPeriodMs == 300000
InfoTimeoutMs == 15000
MaxDurationSec == 600
IdLength == 11
MinPitch == -12
MaxPitch == 12
RequestTimeoutMs == 25000
GraceDelayMs == 5000
DownloadTimeoutMs == 30000
ProcessingTimeoutMs == 60000

Reqs == 1..NumReq
\* The values uuidv4() can return.
SessionIds == 1..NumReq

(***************************************************************************)
(* Source ids.  A string is a sequence of one-character strings; the       *)
(* missing id (undefined or "") is the empty sequence.                     *)
(***************************************************************************)
IdChars ==
    {"a","b","c","d","e","f","g","h","i","j","k","l","m",
     "n","o","p","q","r","s","t","u","v","w","x","y","z",
     "A","B","C","D","E","F","G","H","I","J","K","L","M",
     "N","O","P","Q","R","S","T","U","V","W","X","Y","Z",
     "0","1","2","3","4","5","6","7","8","9","_","-"}

\* The id check without the length of the pattern.
InvalidVideoIdAnyLength(v) ==
    \/ Len(v) = 0
    \/ ~(\A i \in 1..Len(v) : v[i] \in IdChars)

\* !videoId || !/^[a-zA-Z0-9_-]{11}$/.test(videoId)
InvalidVideoId(v) ==
    \/ Len(v) = 0
    \/ ~(Len(v) = IdLength /\ \A i \in 1..Len(v) : v[i] \in IdChars)

GoodId == <<"d","Q","w","4","w","9","W","g","X","c","Q">>
VideoIds ==
    { <<>>,
      GoodId,
      SubSeq(GoodId, 1, 10),
      GoodId \o <<"A">>,
      [GoodId EXCEPT ![4] = "!"],
      [GoodId EXCEPT ![11] = " "] }

(***************************************************************************)
(* Numbers.  playbackSpeed is a fraction <<numerator, denominator>> with a *)
(* positive denominator; halving and doubling are exact in binary floating *)
(* point, so the fraction is the value the program holds.                  *)
(***************************************************************************)
Lt(a, b) == a[1] * b[2] < b[1] * a[2]
Gt(a, b) == Lt(b, a)
EqF(a, b) == a[1] * b[2] = b[1] * a[2]
Half(a) == <<a[1], a[2] * 2>>
\* speed /= 0.5
DivHalf(a) == <<a[1] * 2, a[2]>>
MulF(a, b) == <<a[1] * b[1], a[2] * b[2]>>
One == <<1, 1>>
Two == <<2, 1>>
HalfF == <<1, 2>>
MinSpeed == <<1, 4>>
MaxSpeed == <<2, 1>>

\* The pitch check with its upper bound forgotten.
InvalidPitchLowOnly(p) == p < MinPitch

\* pitchShift < -12 || pitchShift > 12
InvalidPitch(p) == p < MinPitch \/ p > MaxPitch
\* playbackSpeed < 0.25 || playbackSpeed > 2.0
InvalidSpeed(s) == Lt(s, MinSpeed) \/ Gt(s, MaxSpeed)

Pitches == {-13, -12, 0, 13}
Speeds == { <<1, 5>>, <<1, 4>>, <<1, 1>>, <<9, 4>> }

(***************************************************************************)
(* Error messages: sequences of words.  String.includes is the search for  *)
(* a contiguous run of words.                                              *)
(***************************************************************************)
Includes(msg, pat) ==
    \E i \in 1..(Len(msg) - Len(pat) + 1) : SubSeq(msg, i, i + Len(pat) - 1) = pat

\* The status the catch block of process-audio picks from error.message.
StatusOf(msg) ==
    IF Includes(msg, <<"Video", "unavailable">>) THEN 404
    ELSE IF Includes(msg, <<"timeout">>) THEN 408
    ELSE 500

\* What the external retrieval collaborator can report: the kind of the
\* failure and the message text it carries.
FetchErrors ==
    { [kind |-> "unavailable", text |-> <<"Video", "unavailable">>],
      [kind |-> "unavailable", text |-> <<"Private", "video">>],
      [kind |-> "other",       text |-> <<"Status", "code:", "403">>],
      [kind |-> "other",       text |-> <<"network", "timeout", "at:", "url">>] }

\* What the transcoder subprocess can report when it fails by itself.
FfmpegErrors ==
    { <<"ffmpeg", "exited", "with", "code", "1">>,
      <<"ffmpeg", "exited", "with", "code", "1:", "Connection", "timeout">> }

KilledText == <<"ffmpeg", "was", "killed", "with", "signal", "SIGKILL">>
HeadersSentText == <<"Cannot", "set", "headers", "after", "they", "are", "sent">>

(***************************************************************************)
(* Temp files.                                                             *)
(***************************************************************************)
\* The input path built without the session id.
InputFileShared(s) == <<0, "_input.webm">>

\* path.join(tempDir, `${sessionId}_input.webm`)
InputFile(s) == <<s, "_input.webm">>
\* path.join(tempDir, `${sessionId}_output.mp3`)
OutputFile(s) == <<s, "_output.mp3">>

(***************************************************************************)
(* Timers.                                                                 *)
(***************************************************************************)
TimerNames == {"request", "download", "processing", "grace", "info"}
Unset == [st |-> "none", at |-> 0]
Delay(name) ==
    CASE name = "request"    -> RequestTimeoutMs
      [] name = "download"   -> DownloadTimeoutMs
      [] name = "processing" -> ProcessingTimeoutMs
      [] name = "grace"      -> GraceDelayMs
      [] name = "info"       -> InfoTimeoutMs

VARIABLES
    pc,             \* where each request's handler is
    req,            \* the request's parameters
    sessionId,      \* the session ids allocated: request -> id
    wire,           \* the status lines sent to the client, in order
    dblResp,        \* a response was attempted after the headers were sent
    timer,          \* the request's timers
    fetchP,         \* the promise of downloadYouTubeAudio
    procP,          \* the promise of processAudioWithFFmpeg
    aud,            \* the inbound audio stream
    wr,             \* the writer of the input file
    ffmpeg,         \* the transcoder subprocess
    rd,             \* the reader of the output file piped to the response
    getInfo,        \* the metadata lookup
    failKind,       \* the kind of outcome the request ended with
    calls,          \* how often each external collaborator was invoked
    cmdFilters,     \* the filter chain handed to the transcoder
    dir,            \* the temp directory: path of each existing file -> mtime (ms)
    now,            \* the clock (ms), in steps of the sweep period
    crashed,        \* the process died of an uncaught exception
    slots,          \* the requests that may arrive
    traffic,        \* "any": every kind of request; "valid": accepted process-audio
    plPc,           \* Filter Planner: the statement it is at
    plIn,           \* Filter Planner: its arguments
    plSpeed,        \* Filter Planner: the local variable speed
    plFilters,      \* Filter Planner: the array audioFilters
    plCmd,          \* Filter Planner: the arguments of the calls of command.audioFilters
    plIter,         \* planner: the iterations each while loop has run
    rpPc,           \* Reaper: the statement a sweep is at
    rpList,         \* Reaper: the files of the listing forEach has still to visit
    rpRun,          \* Reaper: the sweep under way (time, directory found, files visited, failures)
    rpLog,          \* Reaper: the sweeps completed, with the directory each one left
    fmPc,           \* formatter call: "call" before, "done" after
    fmFn,           \* formatter call: the function called
    fmArg,          \* formatter call: its argument
    fmRet,          \* formatter call: the string returned
    sd              \* shutdown: signals, open connections, the cleanup pass, the exit code

reqVars == <<pc, req, sessionId, wire, dblResp, timer, fetchP, procP, aud, wr, ffmpeg, rd,
             getInfo, failKind, calls, cmdFilters>>
scenario == <<slots, traffic>>
server == <<reqVars, dir, now, crashed, scenario>>
planner == <<plPc, plIn, plSpeed, plFilters, plCmd, plIter>>
reaper == <<rpPc, rpList, rpRun, rpLog>>
format == <<fmPc, fmFn, fmArg, fmRet>>
other == <<planner, reaper, format, sd>>
vars == <<server, other>>

NoReq == [endpoint |-> "none", videoId |-> <<>>, pitchShift |-> 0, playbackSpeed |-> One]
NoCalls == [getInfo |-> 0, fetch |-> 0, transform |-> 0]

InitRequests ==
    /\ pc = [r \in Reqs |-> "idle"]
    /\ req = [r \in Reqs |-> NoReq]
    /\ sessionId = <<>>
    /\ wire = [r \in Reqs |-> <<>>]
    /\ dblResp = [r \in Reqs |-> FALSE]
    /\ timer = [r \in Reqs |-> [n \in TimerNames |-> Unset]]
    /\ fetchP = [r \in Reqs |-> "none"]
    /\ procP = [r \in Reqs |-> "none"]
    /\ aud = [r \in Reqs |-> "none"]
    /\ wr = [r \in Reqs |-> "none"]
    /\ ffmpeg = [r \in Reqs |-> "none"]
    /\ rd = [r \in Reqs |-> "none"]
    /\ getInfo = [r \in Reqs |-> "none"]
    /\ failKind = [r \in Reqs |-> "none"]
    /\ calls = [r \in Reqs |-> NoCalls]
    /\ cmdFilters = [r \in Reqs |-> <<>>]


(***************************************************************************)
(* Filter Planner: the chain processAudioWithFFmpeg builds.                *)
(***************************************************************************)
PitchFilter(p) == [f |-> "asetrate", semitones |-> p, ratio |-> One]

\* The pitch test taking upward shifts only.
PitchWantedUpOnly(p) == p > 0

\* pitchShift !== 0
PitchWanted(p) == p # 0
Tempo(s) == [f |-> "atempo", semitones |-> 0, ratio |-> s]

RECURSIVE TempoAbove(_)
\* while (speed > 2) { push('atempo=2'); speed /= 2 }
TempoAbove(s) ==
    IF Gt(s, Two) THEN [steps |-> <<Tempo(Two)>> \o TempoAbove(Half(s)).steps,
                        speed |-> TempoAbove(Half(s)).speed]
    ELSE [steps |-> <<>>, speed |-> s]

RECURSIVE TempoBelow(_)
\* while (speed < 0.5) { push('atempo=0.5'); speed /= 0.5 }
TempoBelow(s) ==
    IF Lt(s, HalfF) THEN [steps |-> <<Tempo(HalfF)>> \o TempoBelow(DivHalf(s)).steps,
                          speed |-> TempoBelow(DivHalf(s)).speed]
    ELSE [steps |-> <<>>, speed |-> s]

TempoFilters(playbackSpeed) ==
    IF EqF(playbackSpeed, One) THEN <<>>
    ELSE LET a == TempoAbove(playbackSpeed)
             b == TempoBelow(a.speed)
         IN  a.steps \o b.steps \o
             (IF EqF(b.speed, One) THEN <<>> ELSE <<Tempo(b.speed)>>)

AudioFilters(pitchShift, playbackSpeed) ==
    (IF PitchWanted(pitchShift) THEN <<PitchFilter(pitchShift)>> ELSE <<>>)
        \o TempoFilters(playbackSpeed)

(***************************************************************************)
(* Helpers of the request handlers.                                        *)
(***************************************************************************)
\* res.headersSent
HeadersSent(r) == wire[r] # <<>>

SetTimer(tm, r, n) == [tm EXCEPT ![r][n] = [st |-> "armed", at |-> now]]
ClearTimer(tm, r, n) ==
    IF tm[r][n].st = "armed" THEN [tm EXCEPT ![r][n] = [st |-> "cleared", at |-> 0]]
    ELSE tm
FireTimer(tm, r, n) == [tm EXCEPT ![r][n] = [st |-> "fired", at |-> 0]]
Armed(r, n) == timer[r][n].st = "armed"

\* A timer armed in the same turn as a shorter one, or later than it, cannot
\* fire while the shorter one is still armed.
After(r, n, m) == Delay(m) <= Delay(n) => ~Armed(r, m)

\* The timer may fire in the current sweep period / may still be pending
\* when the next period starts (it was armed at real time at..at+period).
MayFire(r, n) == Armed(r, n) /\ now - timer[r][n].at + SweepPeriodMs > Delay(n)
MayOutlast(r, n) == Armed(r, n) => now - timer[r][n].at < Delay(n)

\* fs.unlink of every path of ps that exists
Unlink(d, ps) == [p \in DOMAIN d \ ps |-> d[p]]
\* a write to path p: the file exists and its mtime is the current time
Touch(d, p) == [q \in DOMAIN d \cup {p} |-> IF q = p THEN now ELSE d[q]]

SessionFiles(r) ==
    IF r \in DOMAIN sessionId
    THEN {InputFile(sessionId[r]), OutputFile(sessionId[r])}
    ELSE {}

\* res.status(code).json(...): the status line goes out unless the headers
\* are out already, in which case Express throws ERR_HTTP_HEADERS_SENT.
Respond(r, code) ==
    /\ wire' = IF HeadersSent(r) THEN wire ELSE [wire EXCEPT ![r] = Append(@, code)]
    /\ dblResp' = [dblResp EXCEPT ![r] = @ \/ HeadersSent(r)]

\* The catch block answering whatever the headers say.
CatchRespondsAlways(r) == TRUE

\* if (!res.headersSent) in the catch block
CatchMayRespond(r) == ~HeadersSent(r)

\* The catch block leaving the deadline timer armed.
CatchKeepsDeadline(tm, r) == tm

\* clearTimeout(requestTimeout) in the catch block
CatchClearsDeadline(tm, r) == ClearTimer(tm, r, "request")

\* The catch block of process-audio, entered with the error `msg` of kind
\* `kind`; tm is the timers as the rejecting callback left them.
Catch(r, kind, msg, tm) ==
    /\ timer' = CatchClearsDeadline(tm, r)
    /\ dir' = Unlink(dir, SessionFiles(r))
    /\ IF CatchMayRespond(r) THEN Respond(r, StatusOf(msg))
       ELSE UNCHANGED <<wire, dblResp>>
    /\ failKind' = [failKind EXCEPT ![r] = kind]
    /\ pc' = [pc EXCEPT ![r] = "failed"]

\* uuidv4(): a value never returned before
FreshIds == SessionIds \ {sessionId[r] : r \in DOMAIN sessionId}

\* the process runs: no uncaught exception, no process.exit
Alive == ~crashed /\ sd.exit = <<>>

(***************************************************************************)
(* POST /api/process-audio, up to the first await.                         *)
(***************************************************************************)
\* The request bodies the clients send.
OfferedIds == IF traffic = "any" THEN VideoIds ELSE {GoodId}
OfferedPitches == IF traffic = "any" THEN Pitches ELSE {MaxPitch}
OfferedSpeeds == IF traffic = "any" THEN Speeds ELSE {MinSpeed}
\* The failures the collaborators report to them.
ReportedFetchErrors ==
    IF traffic = "any" THEN FetchErrors
    ELSE {[kind |-> "unavailable", text |-> <<"Video", "unavailable">>]}
ReportedFfmpegErrors ==
    IF traffic = "any" THEN FfmpegErrors
    ELSE {<<"ffmpeg", "exited", "with", "code", "1">>}

Reject400(r) ==
    /\ wire' = [wire EXCEPT ![r] = Append(@, 400)]
    /\ pc' = [pc EXCEPT ![r] = "rejected"]
    /\ UNCHANGED <<sessionId, dblResp, timer, fetchP, procP, aud, wr, ffmpeg, rd,
                   getInfo, failKind, calls, cmdFilters, dir>>

\* lines 184-197 and the body of downloadYouTubeAudio
StartPipeline(r, u) ==
    /\ sessionId' = [q \in DOMAIN sessionId \cup {r} |->
                        IF q = r THEN u ELSE sessionId[q]]
    /\ calls' = [calls EXCEPT ![r].fetch = @ + 1]
    /\ \/ \* ytdl(...) throws: reject('Download init failed: ' + error.message)
          /\ fetchP' = [fetchP EXCEPT ![r] = "rejected"]
          /\ Catch(r, "fetch_init", <<"Download", "init", "failed:", "Invalid", "URL">>,
                   SetTimer(timer, r, "request"))
          /\ UNCHANGED <<aud, wr>>
       \/ /\ fetchP' = [fetchP EXCEPT ![r] = "pending"]
          /\ aud' = [aud EXCEPT ![r] = "open"]
          /\ wr' = [wr EXCEPT ![r] = "open"]
          /\ dir' = Touch(dir, InputFile(u))
          /\ timer' = SetTimer(SetTimer(timer, r, "request"), r, "download")
          /\ pc' = [pc EXCEPT ![r] = "fetching"]
          /\ UNCHANGED <<wire, dblResp, failKind>>
    /\ UNCHANGED <<procP, ffmpeg, rd, getInfo, cmdFilters>>

ProcessAudio(r) ==
    /\ Alive /\ r \in slots /\ pc[r] = "idle"
    /\ \E v \in OfferedIds, p \in OfferedPitches, s \in OfferedSpeeds :
          /\ req' = [req EXCEPT ![r] = [endpoint |-> "process", videoId |-> v,
                                        pitchShift |-> p, playbackSpeed |-> s]]
          /\ IF InvalidVideoId(v) \/ InvalidPitch(p) \/ InvalidSpeed(s)
             THEN Reject400(r)
             ELSE \E u \in FreshIds : StartPipeline(r, u)
    /\ UNCHANGED <<now, crashed, scenario, other>>

(***************************************************************************)
(* The whole-request deadline (lines 190-194).                             *)
(***************************************************************************)
\* if (!res.headersSent) in the timer callback
DeadlineMayRespond(r) == ~HeadersSent(r)

\* The deadline callback deleting the temp files as well.
RequestTimeoutUnlinks(r) ==
    /\ Alive /\ MayFire(r, "request")
    /\ timer' = FireTimer(timer, r, "request")
    /\ IF DeadlineMayRespond(r) THEN Respond(r, 408) ELSE UNCHANGED <<wire, dblResp>>
    /\ dir' = Unlink(dir, SessionFiles(r))
    /\ UNCHANGED <<pc, req, sessionId, fetchP, procP, aud, wr, ffmpeg, rd, getInfo,
                   failKind, calls, cmdFilters, now, crashed, scenario, other>>

RequestTimeout(r) ==
    /\ Alive /\ MayFire(r, "request")
    /\ timer' = FireTimer(timer, r, "request")
    /\ IF DeadlineMayRespond(r) THEN Respond(r, 408) ELSE UNCHANGED <<wire, dblResp>>
    /\ UNCHANGED <<pc, req, sessionId, fetchP, procP, aud, wr, ffmpeg, rd, getInfo,
                   failKind, calls, cmdFilters, dir, now, crashed, scenario, other>>


(***************************************************************************)
(* Fetch Adapter events (downloadYouTubeAudio, lines 261-282).             *)
(***************************************************************************)
\* The continuation opening the stream without looking at the headers.
StartStreamingUnguarded(r, tm) ==
    /\ timer' = ClearTimer(tm, r, "request")
    /\ rd' = [rd EXCEPT ![r] = "open"]
    /\ pc' = [pc EXCEPT ![r] = "streaming"]
    /\ dir' = Touch(dir, OutputFile(sessionId[r]))
    /\ UNCHANGED <<wire, dblResp, failKind>>

\* lines 200-219: the continuation after both awaits
StartStreaming(r, tm) ==
    IF HeadersSent(r)
    THEN \* res.setHeader throws ERR_HTTP_HEADERS_SENT: the catch block runs
         /\ Catch(r, "set_header", HeadersSentText, ClearTimer(tm, r, "request"))
         /\ UNCHANGED rd
    ELSE /\ timer' = ClearTimer(tm, r, "request")
         /\ rd' = [rd EXCEPT ![r] = "open"]
         /\ pc' = [pc EXCEPT ![r] = "streaming"]
         /\ dir' = Touch(dir, OutputFile(sessionId[r]))
         /\ UNCHANGED <<wire, dblResp, failKind>>

\* processAudioWithFFmpeg(inputFile, outputFile, pitchShift, playbackSpeed)
StartTransform(r, tm) ==
    /\ calls' = [calls EXCEPT ![r].transform = @ + 1]
    /\ \/ \* the fluent-ffmpeg calls throw: 'Processing init failed'
          /\ procP' = [procP EXCEPT ![r] = "rejected"]
          /\ Catch(r, "transform_init",
                   <<"Processing", "init", "failed:", "Cannot", "find", "ffmpeg">>, tm)
          /\ UNCHANGED <<ffmpeg, cmdFilters>>
       \/ /\ procP' = [procP EXCEPT ![r] = "pending"]
          /\ cmdFilters' = [cmdFilters EXCEPT ![r] =
                               AudioFilters(req[r].pitchShift, req[r].playbackSpeed)]
          /\ ffmpeg' = [ffmpeg EXCEPT ![r] = "running"]
          /\ timer' = SetTimer(tm, r, "processing")
          /\ pc' = [pc EXCEPT ![r] = "transforming"]
          /\ dir' = Touch(dir, InputFile(sessionId[r]))
          /\ UNCHANGED <<wire, dblResp, failKind>>

\* a chunk of the remote stream is written to the input file
FetchProgress(r) ==
    /\ Alive /\ aud[r] = "open" /\ wr[r] = "open"
    /\ dir' = Touch(dir, InputFile(sessionId[r]))
    /\ UNCHANGED <<reqVars, now, crashed, scenario, other>>

\* writeStream.on('finish'): clearTimeout(timeout); resolve()
WriteFinish(r) ==
    /\ Alive /\ aud[r] = "open" /\ wr[r] = "open"
    /\ aud' = [aud EXCEPT ![r] = "ended"]
    /\ wr' = [wr EXCEPT ![r] = "finished"]
    /\ IF fetchP[r] = "pending"
       THEN /\ fetchP' = [fetchP EXCEPT ![r] = "resolved"]
            /\ StartTransform(r, ClearTimer(timer, r, "download"))
       ELSE /\ timer' = ClearTimer(timer, r, "download")
            /\ UNCHANGED <<fetchP, procP, ffmpeg, cmdFilters, calls, pc, dir, wire,
                           dblResp, failKind>>
    /\ UNCHANGED <<req, sessionId, rd, getInfo, now, crashed, scenario, other>>

\* what a rejection of downloadYouTubeAudio does: nothing once the promise
\* is settled, else the await throws into the catch block
RejectFetch(r, kind, msg, tm) ==
    IF fetchP[r] = "pending"
    THEN /\ fetchP' = [fetchP EXCEPT ![r] = "rejected"]
         /\ Catch(r, kind, msg, tm)
    ELSE /\ timer' = tm
         /\ UNCHANGED <<fetchP, pc, dir, wire, dblResp, failKind>>

\* audioStream.on('error'): clearTimeout(timeout); reject('Download failed: ...')
AudioError(r) ==
    /\ Alive /\ aud[r] = "open"
    /\ aud' = [aud EXCEPT ![r] = "errored"]
    /\ \E e \in ReportedFetchErrors :
          RejectFetch(r, IF e.kind = "unavailable" THEN "unavailable" ELSE "fetch_other",
                      <<"Download", "failed:">> \o e.text,
                      ClearTimer(timer, r, "download"))
    /\ UNCHANGED <<req, sessionId, procP, wr, ffmpeg, rd, getInfo, calls, cmdFilters,
                   now, crashed, scenario, other>>

\* writeStream.on('error'): clearTimeout(timeout); reject('File write failed')
WriteError(r) ==
    /\ Alive /\ wr[r] = "open"
    /\ wr' = [wr EXCEPT ![r] = "errored"]
    /\ RejectFetch(r, "write", <<"File", "write", "failed">>,
                   ClearTimer(timer, r, "download"))
    /\ UNCHANGED <<req, sessionId, procP, aud, ffmpeg, rd, getInfo, calls, cmdFilters,
                   now, crashed, scenario, other>>

\* The fetch timeout destroying both streams without rejecting the fetch.
DownloadTimeoutNoReject(r) ==
    /\ Alive /\ MayFire(r, "download") /\ After(r, "download", "request")
    /\ aud' = [aud EXCEPT ![r] = "destroyed"]
    /\ wr' = [wr EXCEPT ![r] = "destroyed"]
    /\ timer' = FireTimer(timer, r, "download")
    /\ UNCHANGED <<req, sessionId, fetchP, pc, dir, wire, dblResp, failKind, procP,
                   ffmpeg, rd, getInfo, calls, cmdFilters, now, crashed, scenario, other>>

\* The fetch timeout destroying the inbound stream only.
DownloadTimeoutLeavesWriter(r) ==
    /\ Alive /\ MayFire(r, "download") /\ After(r, "download", "request")
    /\ aud' = [aud EXCEPT ![r] = "destroyed"]
    /\ RejectFetch(r, "fetch_timeout", <<"Download", "timeout">>,
                   FireTimer(timer, r, "download"))
    /\ UNCHANGED <<req, sessionId, procP, wr, ffmpeg, rd, getInfo, calls, cmdFilters,
                   now, crashed, scenario, other>>

\* the fetch timeout: both streams destroyed; reject('Download timeout')
DownloadTimeout(r) ==
    /\ Alive /\ MayFire(r, "download") /\ After(r, "download", "request")
    /\ aud' = [aud EXCEPT ![r] = "destroyed"]
    /\ wr' = [wr EXCEPT ![r] = "destroyed"]
    /\ RejectFetch(r, "fetch_timeout", <<"Download", "timeout">>,
                   FireTimer(timer, r, "download"))
    /\ UNCHANGED <<req, sessionId, procP, ffmpeg, rd, getInfo, calls, cmdFilters,
                   now, crashed, scenario, other>>

(***************************************************************************)
(* Transform Adapter events (processAudioWithFFmpeg, lines 325-337).       *)
(***************************************************************************)
RejectTransform(r, kind, msg, tm) ==
    IF procP[r] = "pending"
    THEN /\ procP' = [procP EXCEPT ![r] = "rejected"]
         /\ Catch(r, kind, msg, tm)
    ELSE /\ timer' = tm
         /\ UNCHANGED <<procP, pc, dir, wire, dblResp, failKind>>

\* the transcoder writes to the output file
FfmpegProgress(r) ==
    /\ Alive /\ ffmpeg[r] = "running"
    /\ dir' = Touch(dir, OutputFile(sessionId[r]))
    /\ UNCHANGED <<reqVars, now, crashed, scenario, other>>

\* .on('end', resolve)
FfmpegEnd(r) ==
    /\ Alive /\ ffmpeg[r] = "running"
    /\ ffmpeg' = [ffmpeg EXCEPT ![r] = "ended"]
    /\ IF procP[r] = "pending"
       THEN /\ procP' = [procP EXCEPT ![r] = "resolved"]
            /\ StartStreaming(r, timer)
       ELSE UNCHANGED <<procP, timer, rd, pc, dir, wire, dblResp, failKind>>
    /\ UNCHANGED <<req, sessionId, fetchP, aud, wr, getInfo, calls, cmdFilters,
                   now, crashed, scenario, other>>

\* .on('error'): reject('Processing failed: ' + error.message)
FfmpegError(r) ==
    /\ Alive /\ ffmpeg[r] \in {"running", "killed"}
    /\ ffmpeg' = [ffmpeg EXCEPT ![r] = "errored"]
    /\ \E text \in (IF ffmpeg[r] = "killed" THEN {KilledText} ELSE ReportedFfmpegErrors) :
          RejectTransform(r, "transcoder", <<"Processing", "failed:">> \o text, timer)
    /\ UNCHANGED <<req, sessionId, fetchP, aud, wr, rd, getInfo, calls, cmdFilters,
                   now, crashed, scenario, other>>

\* The processing timeout rejecting without the kill.
ProcessingTimeoutNoKill(r) ==
    /\ Alive /\ MayFire(r, "processing") /\ After(r, "processing", "request")
    /\ RejectTransform(r, "transform_timeout", <<"Processing", "timeout">>,
                       FireTimer(timer, r, "processing"))
    /\ UNCHANGED <<req, sessionId, fetchP, aud, wr, ffmpeg, rd, getInfo, calls, cmdFilters,
                   now, crashed, scenario, other>>

\* the processing timeout: command.kill('SIGKILL'); reject('Processing timeout')
ProcessingTimeout(r) ==
    /\ Alive /\ MayFire(r, "processing") /\ After(r, "processing", "request")
    /\ ffmpeg' = [ffmpeg EXCEPT ![r] = IF @ = "running" THEN "killed" ELSE @]
    /\ RejectTransform(r, "transform_timeout", <<"Processing", "timeout">>,
                       FireTimer(timer, r, "processing"))
    /\ UNCHANGED <<req, sessionId, fetchP, aud, wr, rd, getInfo, calls, cmdFilters,
                   now, crashed, scenario, other>>


(***************************************************************************)
(* Streaming the result (lines 206-219).                                   *)
(***************************************************************************)
\* the first write to the response sends the status line, 200 by default
ImplicitHeaders(r) == IF HeadersSent(r) THEN wire ELSE [wire EXCEPT ![r] = Append(@, 200)]

\* audioStream.pipe(res): a chunk of the output file goes to the client
StreamData(r) ==
    /\ Alive /\ rd[r] = "open"
    /\ wire' = ImplicitHeaders(r)
    /\ UNCHANGED <<pc, req, sessionId, dblResp, timer, fetchP, procP, aud, wr, ffmpeg,
                   rd, getInfo, failKind, calls, cmdFilters, dir, now, crashed, scenario, other>>

\* audioStream.on('end'): pipe ends the response; setTimeout(..., 5000)
StreamEnd(r) ==
    /\ Alive /\ rd[r] = "open"
    /\ rd' = [rd EXCEPT ![r] = "ended"]
    /\ wire' = ImplicitHeaders(r)
    /\ timer' = SetTimer(timer, r, "grace")
    /\ pc' = [pc EXCEPT ![r] = "grace"]
    /\ UNCHANGED <<req, sessionId, dblResp, fetchP, procP, aud, wr, ffmpeg, getInfo,
                   failKind, calls, cmdFilters, dir, now, crashed, scenario, other>>

\* the read stream emits 'error': it has no 'error' listener, so the event
\* is thrown as an uncaught exception and the process dies
StreamError(r) ==
    /\ Alive /\ rd[r] = "open"
    /\ rd' = [rd EXCEPT ![r] = "errored"]
    /\ pc' = [pc EXCEPT ![r] = "stream_error"]
    /\ crashed' = TRUE
    /\ UNCHANGED <<req, sessionId, wire, dblResp, timer, fetchP, procP, aud, wr, ffmpeg,
                   getInfo, failKind, calls, cmdFilters, dir, now, scenario, other>>

\* the client closes the connection: pipe unpipes the reader, which stays
\* paused and never emits 'end'
ClientAbort(r) ==
    /\ Alive /\ rd[r] = "open"
    /\ rd' = [rd EXCEPT ![r] = "paused"]
    /\ pc' = [pc EXCEPT ![r] = "aborted"]
    /\ UNCHANGED <<req, sessionId, wire, dblResp, timer, fetchP, procP, aud, wr, ffmpeg,
                   getInfo, failKind, calls, cmdFilters, dir, now, crashed, scenario, other>>

\* The grace timer emptying the temp directory.
GraceTimeoutWipes(r) ==
    /\ Alive /\ MayFire(r, "grace")
    /\ timer' = FireTimer(timer, r, "grace")
    /\ dir' = Unlink(dir, DOMAIN dir)
    /\ pc' = [pc EXCEPT ![r] = "done"]
    /\ UNCHANGED <<req, sessionId, wire, dblResp, fetchP, procP, aud, wr, ffmpeg, rd,
                   getInfo, failKind, calls, cmdFilters, now, crashed, scenario, other>>

\* the grace timer (lines 210-218): both files are unlinked if they exist
GraceTimeout(r) ==
    /\ Alive /\ MayFire(r, "grace")
    /\ timer' = FireTimer(timer, r, "grace")
    /\ dir' = Unlink(dir, SessionFiles(r))
    /\ pc' = [pc EXCEPT ![r] = "done"]
    /\ UNCHANGED <<req, sessionId, wire, dblResp, fetchP, procP, aud, wr, ffmpeg, rd,
                   getInfo, failKind, calls, cmdFilters, now, crashed, scenario, other>>

(***************************************************************************)
(* GET /api/video-info/:videoId (lines 112-166).                           *)
(***************************************************************************)
Durations == {0, MaxDurationSec, MaxDurationSec + 1}

\* the catch block of video-info
InfoStatusOf(msg) ==
    IF Includes(msg, <<"Video", "unavailable">>) THEN 404
    ELSE IF Includes(msg, <<"timeout">>) THEN 408
    ELSE 500

VideoInfo(r) ==
    /\ Alive /\ r \in slots /\ pc[r] = "idle" /\ traffic = "any"
    /\ \E v \in VideoIds :
          /\ req' = [req EXCEPT ![r] = [endpoint |-> "info", videoId |-> v,
                                        pitchShift |-> 0, playbackSpeed |-> One]]
          /\ IF InvalidVideoId(v)
             THEN Reject400(r)
             ELSE /\ timer' = SetTimer(timer, r, "info")
                  /\ getInfo' = [getInfo EXCEPT ![r] = "pending"]
                  /\ calls' = [calls EXCEPT ![r].getInfo = @ + 1]
                  /\ pc' = [pc EXCEPT ![r] = "info"]
                  /\ UNCHANGED <<sessionId, wire, dblResp, fetchP, procP, aud, wr,
                                 ffmpeg, rd, failKind, cmdFilters, dir>>
    /\ UNCHANGED <<now, crashed, scenario, other>>

\* what settles Promise.race first is answered; what comes later is dropped
InfoAnswer(r, code, kind) ==
    IF pc[r] = "info"
    THEN /\ Respond(r, code)
         /\ failKind' = [failKind EXCEPT ![r] = kind]
         /\ pc' = [pc EXCEPT ![r] = "info_done"]
    ELSE UNCHANGED <<wire, dblResp, failKind, pc>>

\* setTimeout(() => reject(new Error('Request timeout')), 15000)
InfoTimeout(r) ==
    /\ Alive /\ MayFire(r, "info")
    /\ timer' = FireTimer(timer, r, "info")
    /\ InfoAnswer(r, InfoStatusOf(<<"Request", "timeout">>), "info_timeout")
    /\ UNCHANGED <<req, sessionId, fetchP, procP, aud, wr, ffmpeg, rd, getInfo,
                   calls, cmdFilters, dir, now, crashed, scenario, other>>

\* ytdl.getInfo resolves with a source of `duration` seconds
GetInfoResolve(r) ==
    /\ Alive /\ getInfo[r] = "pending"
    /\ getInfo' = [getInfo EXCEPT ![r] = "resolved"]
    /\ \E duration \in Durations :
          InfoAnswer(r, IF duration > MaxDurationSec THEN 400 ELSE 200,
                        IF duration > MaxDurationSec THEN "too_long" ELSE "ok")
    /\ UNCHANGED <<req, sessionId, timer, fetchP, procP, aud, wr, ffmpeg, rd,
                   calls, cmdFilters, dir, now, crashed, scenario, other>>

\* ytdl.getInfo rejects
GetInfoReject(r) ==
    /\ Alive /\ getInfo[r] = "pending"
    /\ getInfo' = [getInfo EXCEPT ![r] = "rejected"]
    /\ \E e \in FetchErrors :
          InfoAnswer(r, InfoStatusOf(e.text),
                     IF e.kind = "unavailable" THEN "unavailable" ELSE "lookup_other")
    /\ UNCHANGED <<req, sessionId, timer, fetchP, procP, aud, wr, ffmpeg, rd,
                   calls, cmdFilters, dir, now, crashed, scenario, other>>

(***************************************************************************)
(* Temp-File Reaper (cleanupTempFiles, run by setInterval every 5 min).    *)
(***************************************************************************)
\* The age test taking the threshold itself as too old.
TooOldInclusive(mtime, t) == t - mtime >= CleanupAgeMs

\* fileAge > 900000, with fileAge = now - stats.mtime.getTime()
TooOld(mtime, t) == t - mtime > CleanupAgeMs

\* One sweep at time t in which statSync or unlinkSync throws for `failing`.
Sweep(d, t, failing) ==
    Unlink(d, {p \in DOMAIN d \ failing : TooOld(d[p], t)})

\* A sweep period passes and the interval callback runs.  No timer of a
\* request that must have fired by then is still armed.
CleanupTempFiles ==
    /\ Alive /\ now < MaxSweeps * SweepPeriodMs
    /\ \A r \in Reqs, n \in TimerNames : MayOutlast(r, n)
    /\ now' = now + SweepPeriodMs
    /\ \E failing \in SUBSET DOMAIN dir : dir' = Sweep(dir, now', failing)
    /\ UNCHANGED <<reqVars, crashed, scenario, other>>

(***************************************************************************)
(* cleanupTempFiles statement by statement (lines 83-107).                 *)
(***************************************************************************)
NoRun == [at |-> 0, before |-> <<>>, listed |-> FALSE, seen |-> {}, failed |-> {}]

ReaperIdle ==
    /\ rpPc = "idle"
    /\ rpList = <<>>
    /\ rpRun = NoRun
    /\ rpLog = <<>>

\* The files of a temp directory and the times they were last written at,
\* seen from the time of the first sweep: older than the threshold by 1 ms,
\* of the age of the threshold, just written.
RpFiles == {InputFile(i) : i \in 1..MaxFiles}
RpStart == CleanupAgeMs + SweepPeriodMs
RpMtimes == {RpStart - CleanupAgeMs - 1, RpStart - CleanupAgeMs, RpStart}
\* The time that passes between two sweeps run in succession (ms).
RpGaps == {0, 1}
\* The sweeps run in succession.
RpRuns == 2

RECURSIVE Listing(_)
\* fs.readdirSync(tempDir): the names, in the order of the directory
Listing(ps) ==
    IF ps = {} THEN <<>>
    ELSE LET p == CHOOSE x \in ps : \A y \in ps : x[1] <= y[1]
         IN  <<p>> \o Listing(ps \ {p})

\* The loop given up at the first file that fails.
OnFileErrorAbort(list) == <<>>

\* catch (err) inside forEach: the error is logged and forEach goes on
OnFileError(list) == Tail(list)

\* const files = fs.readdirSync(tempDir); const now = Date.now();
\* or tempDir is missing / readdirSync throws into the outer catch
ReapBegin ==
    /\ rpPc = "list"
    /\ \E listed \in BOOLEAN :
          /\ rpRun' = [at |-> now, before |-> dir, listed |-> listed,
                       seen |-> {}, failed |-> {}]
          /\ rpList' = IF listed THEN Listing(DOMAIN dir) ELSE <<>>
    /\ rpPc' = "files"
    /\ UNCHANGED <<server, sd, planner, format, rpLog>>

\* one turn of files.forEach: statSync, the age test, unlinkSync
ReapFile ==
    /\ rpPc = "files" /\ rpList # <<>>
    /\ LET f == Head(rpList)
       IN  \E outcome \in {"ok", "stat_throws", "unlink_throws"} :
              /\ outcome = "unlink_throws" => TooOld(dir[f], rpRun.at)
              /\ IF outcome = "ok"
                 THEN /\ dir' = IF TooOld(dir[f], rpRun.at) THEN Unlink(dir, {f}) ELSE dir
                      /\ rpList' = Tail(rpList)
                      /\ rpRun' = [rpRun EXCEPT !.seen = @ \cup {f}]
                 ELSE /\ dir' = dir
                      /\ rpList' = OnFileError(rpList)
                      /\ rpRun' = [rpRun EXCEPT !.seen = @ \cup {f},
                                                !.failed = @ \cup {f}]
    /\ UNCHANGED <<reqVars, now, crashed, scenario, sd, planner, format, rpPc, rpLog>>

\* cleanupTempFiles returns; the next sweep starts after a gap
ReapEnd ==
    /\ rpPc = "files" /\ rpList = <<>>
    /\ rpLog' = Append(rpLog, [run |-> rpRun, after |-> dir])
    /\ rpRun' = NoRun
    /\ IF Len(rpLog') < RpRuns
       THEN /\ rpPc' = "list"
            /\ \E gap \in RpGaps : now' = now + gap
       ELSE /\ rpPc' = "done"
            /\ now' = now
    /\ UNCHANGED <<reqVars, dir, crashed, scenario, sd, planner, format, rpList>>

(***************************************************************************)
(* formatDuration and formatNumber (lines 346-368).  A string is the       *)
(* sequence of its characters.                                             *)
(***************************************************************************)
DigitChars == <<"0", "1", "2", "3", "4", "5", "6", "7", "8", "9">>

RECURSIVE toString(_)
\* Number.prototype.toString of a non-negative integer
toString(n) ==
    IF n < 10 THEN <<DigitChars[n + 1]>>
    ELSE toString(n \div 10) \o <<DigitChars[(n % 10) + 1]>>

\* The field left as it is.
padStartNone(str) == str

\* str.padStart(2, '0')
padStart(str) == IF Len(str) < 2 THEN <<"0">> \o str ELSE str

formatDuration(seconds) ==
    LET hrs == seconds \div 3600
        mins == (seconds % 3600) \div 60
        secs == seconds % 60
    IN  IF hrs > 0
        THEN toString(hrs) \o <<":">> \o padStart(toString(mins)) \o <<":">>
                 \o padStart(toString(secs))
        ELSE toString(mins) \o <<":">> \o padStart(toString(secs))

\* 10 * unit = 10^k: the quotient n / 10^k is a binary fraction exactly when
\* 5^k divides n.
FivePower(unit) ==
    CASE unit = 100       -> 125
      [] unit = 100000    -> 15625
      [] unit = 100000000 -> 1953125

\* (n / (10 * unit)).toFixed(1), in tenths.  The quotient is a multiple of
\* 1 / (10 * unit), so the stored double rounds as the exact quotient does,
\* except at a tie: a quotient stored exactly rounds up there, any other one
\* is stored on either side of the tie.
toFixedTenths(n, unit) ==
    LET down == n \div unit
        rest == n % unit
    IN  IF 2 * rest > unit THEN {down + 1}
        ELSE IF 2 * rest < unit THEN {down}
        ELSE IF n % FivePower(unit) = 0 THEN {down + 1}
        ELSE {down, down + 1}

\* the digits of x.toFixed(1) for x of `tenths` tenths
FixedString(tenths) == toString(tenths \div 10) \o <<".">> \o toString(tenths % 10)

\* The strings formatNumber(n) can return.
formatNumber(n) ==
    IF n >= 1000000000
    THEN {FixedString(t) \o <<"B">> : t \in toFixedTenths(n, 100000000)}
    ELSE IF n >= 1000000
    THEN {FixedString(t) \o <<"M">> : t \in toFixedTenths(n, 100000)}
    ELSE IF n >= 1000
    THEN {FixedString(t) \o <<"K">> : t \in toFixedTenths(n, 100)}
    ELSE {toString(n)}

FormatIdle ==
    /\ fmPc = "idle"
    /\ fmFn = "none"
    /\ fmArg = 0
    /\ fmRet = <<>>

\* The arguments the formatters are called with.
DurationArgs ==
    (0..MaxSeconds) \cup
    {h * 3600 + m * 60 + sec : h \in {9, 10, 100}, m \in {0, 5, 59}, sec \in {0, 5, 59}}
CountArgs ==
    (0..MaxCount) \cup
    {c + d : c \in {999900, 1000000, 2500000, 999900000, 1000000000, 2000000000},
             d \in {0, 49, 50, 51, 99}}

\* duration: formatDuration(duration)
FormatDurationCall ==
    /\ fmPc = "call" /\ fmFn = "duration"
    /\ fmRet' = formatDuration(fmArg)
    /\ fmPc' = "done"
    /\ UNCHANGED <<server, sd, planner, reaper, fmFn, fmArg>>

\* view_count: formatNumber(videoDetails.viewCount || 0)
FormatNumberCall ==
    /\ fmPc = "call" /\ fmFn = "number"
    /\ fmRet' \in formatNumber(fmArg)
    /\ fmPc' = "done"
    /\ UNCHANGED <<server, sd, planner, reaper, fmFn, fmArg>>

(***************************************************************************)
(* The Filter Planner statement by statement (lines 299-319).              *)
(***************************************************************************)
PlannerPitches == {MinPitch, 0, MaxPitch}
PlannerSpeeds == {<<n, SpeedDen>> : n \in 1..MaxSpeedNum}
\* the speeds of any sign the function can be handed
AnySpeeds == {<<n, SpeedDen>> : n \in -SpeedDen..MaxSpeedNum}

NoIter == [above |-> 0, below |-> 0]

PlannerIdle ==
    /\ plPc = "idle"
    /\ plIn = [pitchShift |-> 0, playbackSpeed |-> One]
    /\ plSpeed = One
    /\ plFilters = <<>>
    /\ plCmd = <<>>
    /\ plIter = NoIter

\* audioFilters.push('atempo=2')
AboveStep == Tempo(Two)
\* The second loop pushing the step of the first one.
BelowStepDoubled == Tempo(Two)
\* audioFilters.push('atempo=0.5')
BelowStep == Tempo(HalfF)

\* The second loop dividing by 2 as the first one does.
BelowSpeedHalved(s) == Half(s)
\* speed /= 0.5
BelowSpeed(s) == DivHalf(s)

\* if (pitchShift !== 0) audioFilters.push(`asetrate=...`)
PlanPitch ==
    /\ plPc = "pitch"
    /\ plFilters' = IF PitchWanted(plIn.pitchShift)
                    THEN Append(plFilters, PitchFilter(plIn.pitchShift))
                    ELSE plFilters
    /\ plSpeed' = plIn.playbackSpeed
    /\ plPc' = IF EqF(plIn.playbackSpeed, One) THEN "apply" ELSE "above"
    /\ UNCHANGED <<server, sd, reaper, format, plIn, plCmd, plIter>>

\* while (speed > 2) { audioFilters.push('atempo=2'); speed /= 2; }
PlanAbove ==
    /\ plPc = "above"
    /\ IF Gt(plSpeed, Two)
       THEN /\ plIter.above < MaxIter
            /\ plFilters' = Append(plFilters, AboveStep)
            /\ plSpeed' = Half(plSpeed)
            /\ plIter' = [plIter EXCEPT !.above = @ + 1]
            /\ UNCHANGED plPc
       ELSE /\ plPc' = "below"
            /\ UNCHANGED <<plFilters, plSpeed, plIter>>
    /\ UNCHANGED <<server, sd, reaper, format, plIn, plCmd>>

\* while (speed < 0.5) { audioFilters.push('atempo=0.5'); speed /= 0.5; }
PlanBelow ==
    /\ plPc = "below"
    /\ IF Lt(plSpeed, HalfF)
       THEN /\ plIter.below < MaxIter
            /\ plFilters' = Append(plFilters, BelowStep)
            /\ plSpeed' = BelowSpeed(plSpeed)
            /\ plIter' = [plIter EXCEPT !.below = @ + 1]
            /\ UNCHANGED plPc
       ELSE /\ plPc' = "last"
            /\ UNCHANGED <<plFilters, plSpeed, plIter>>
    /\ UNCHANGED <<server, sd, reaper, format, plIn, plCmd>>

\* if (speed !== 1) audioFilters.push(`atempo=${speed}`)
PlanLast ==
    /\ plPc = "last"
    /\ plFilters' = IF EqF(plSpeed, One) THEN plFilters
                    ELSE Append(plFilters, Tempo(plSpeed))
    /\ plPc' = "apply"
    /\ UNCHANGED <<server, sd, reaper, format, plIn, plSpeed, plCmd, plIter>>

\* if (audioFilters.length > 0) command = command.audioFilters(audioFilters)
PlanApply ==
    /\ plPc = "apply"
    /\ plCmd' = IF Len(plFilters) > 0 THEN Append(plCmd, plFilters) ELSE plCmd
    /\ plPc' = "done"
    /\ UNCHANGED <<server, sd, reaper, format, plIn, plSpeed, plFilters, plIter>>

(***************************************************************************)
(* Graceful shutdown (gracefulShutdown, lines 391-418).                    *)
(***************************************************************************)
Signals == {"SIGTERM", "SIGINT"}

\* sd.exit is <<>> while the process runs and <<code>> once it has exited.
NoShutdown(conns) ==
    [pc |-> "up", conns |-> conns, signals |-> <<>>, timers |-> 0, started |-> FALSE,
     listed |-> <<>>, list |-> <<>>, failed |-> {}, exit |-> <<>>]

ShutdownIdle == sd = NoShutdown(0)

\* The error caught inside forEach, which goes on with the next file.
OnUnlinkErrorContinue(list) == Tail(list)

\* unlinkSync throws out of forEach into the catch around the whole pass
OnUnlinkError(list) == <<>>

\* process.on(sig, gracefulShutdown): server.close(callback) and
\* setTimeout(() => process.exit(1), 10000)
GracefulShutdown ==
    /\ Alive /\ sd.pc \in {"up", "closing"}
    /\ Len(sd.signals) < MaxSignals
    /\ \E sig \in Signals :
          sd' = [sd EXCEPT !.signals = Append(@, sig), !.pc = "closing",
                           !.timers = @ + 1]
    /\ UNCHANGED <<server, planner, reaper, format>>

\* a client's connection ends
ConnectionEnd ==
    /\ Alive /\ sd.pc \in {"up", "closing"}
    /\ sd.conns > 0
    /\ sd' = [sd EXCEPT !.conns = @ - 1]
    /\ UNCHANGED <<server, planner, reaper, format>>

\* the server emits 'close' once it has stopped listening and no connection
\* is left: the callback starts; existsSync and readdirSync, or the
\* directory is missing / readdirSync throws into the catch
ServerClosed ==
    /\ Alive /\ sd.pc = "closing"
    /\ sd.conns = 0
    /\ \E listed \in BOOLEAN :
          LET files == IF listed THEN Listing(DOMAIN dir) ELSE <<>>
          IN  sd' = [sd EXCEPT !.pc = "cleanup", !.started = TRUE,
                               !.listed = files, !.list = files]
    /\ UNCHANGED <<server, planner, reaper, format>>

\* one turn of files.forEach: fs.unlinkSync(path.join(tempDir, file))
ShutdownUnlink ==
    /\ Alive /\ sd.pc = "cleanup" /\ sd.list # <<>>
    /\ LET f == Head(sd.list)
       IN  \E throws \in BOOLEAN :
              IF throws
              THEN /\ dir' = dir
                   /\ sd' = [sd EXCEPT !.list = OnUnlinkError(@),
                                       !.failed = @ \cup {f}]
              ELSE /\ dir' = Unlink(dir, {f})
                   /\ sd' = [sd EXCEPT !.list = Tail(@)]
    /\ UNCHANGED <<reqVars, now, crashed, scenario, planner, reaper, format>>

\* process.exit(0) at the end of the callback
ShutdownExit ==
    /\ Alive /\ sd.pc = "cleanup" /\ sd.list = <<>>
    /\ sd' = [sd EXCEPT !.pc = "exited", !.exit = <<0>>]
    /\ UNCHANGED <<server, planner, reaper, format>>

\* the 10 s timer: process.exit(1).  The callback of server.close is
\* synchronous, so the timer cannot run in the middle of it.
ShutdownTimeout ==
    /\ Alive /\ sd.pc = "closing"
    /\ sd.timers > 0
    /\ sd' = [sd EXCEPT !.pc = "exited", !.exit = <<1>>]
    /\ UNCHANGED <<server, planner, reaper, format>>

(***************************************************************************)
(* Specifications.                                                         *)
(***************************************************************************)
AudioStep(r) ==
    \/ ProcessAudio(r)
    \/ RequestTimeout(r)
    \/ FetchProgress(r)
    \/ WriteFinish(r)
    \/ AudioError(r)
    \/ WriteError(r)
    \/ DownloadTimeout(r)
    \/ FfmpegProgress(r)
    \/ FfmpegEnd(r)
    \/ FfmpegError(r)
    \/ ProcessingTimeout(r)
    \/ StreamData(r)
    \/ StreamEnd(r)
    \/ StreamError(r)
    \/ ClientAbort(r)
    \/ GraceTimeout(r)

InfoStep(r) ==
    \/ VideoInfo(r)
    \/ InfoTimeout(r)
    \/ GetInfoResolve(r)
    \/ GetInfoReject(r)

Next ==
    \/ \E r \in Reqs : AudioStep(r)
    \/ \E r \in Reqs : InfoStep(r)
    \/ CleanupTempFiles

Init ==
    /\ InitRequests
    /\ dir = <<>>
    /\ now = 0
    /\ crashed = FALSE
    /\ ShutdownIdle
    /\ slots = {1}
    /\ traffic = "any"
    /\ PlannerIdle
    /\ ReaperIdle
    /\ FormatIdle

\* One request of any kind and the Reaper, over MaxSweeps sweep periods.
Spec == Init /\ [][Next]_vars

InitConc ==
    /\ InitRequests
    /\ dir = <<>>
    /\ now = 0
    /\ crashed = FALSE
    /\ ShutdownIdle
    /\ slots = Reqs
    /\ traffic = "valid"
    /\ PlannerIdle
    /\ ReaperIdle
    /\ FormatIdle

NextConc == \E r \in Reqs : AudioStep(r)

\* NumReq concurrent process-audio requests that pass validation, within
\* one sweep period.
SpecConc == InitConc /\ [][NextConc]_vars

InitPlanner ==
    /\ InitRequests
    /\ dir = <<>>
    /\ now = 0
    /\ crashed = FALSE
    /\ ShutdownIdle
    /\ slots = {}
    /\ traffic = "any"
    /\ plPc = "pitch"
    /\ plIn \in [pitchShift : PlannerPitches, playbackSpeed : PlannerSpeeds]
    /\ plSpeed = One
    /\ plFilters = <<>>
    /\ plCmd = <<>>
    /\ plIter = NoIter
    /\ ReaperIdle
    /\ FormatIdle

NextPlanner == PlanPitch \/ PlanAbove \/ PlanBelow \/ PlanLast \/ PlanApply

\* The Filter Planner run on every pair of arguments of the bounded sets.
SpecPlanner == InitPlanner /\ [][NextPlanner]_vars

InitPlannerAny ==
    /\ InitRequests
    /\ dir = <<>>
    /\ now = 0
    /\ crashed = FALSE
    /\ ShutdownIdle
    /\ slots = {}
    /\ traffic = "any"
    /\ plPc = "pitch"
    /\ plIn \in [pitchShift : PlannerPitches, playbackSpeed : AnySpeeds]
    /\ plSpeed = One
    /\ plFilters = <<>>
    /\ plCmd = <<>>
    /\ plIter = NoIter
    /\ ReaperIdle
    /\ FormatIdle

\* The Filter Planner is synchronous code: the engine always runs its next
\* statement.  It is run here on every speed of the bounded set, the ones
\* validation rejects included; a loop that has run MaxIter times is cut off.
SpecPlannerAny == InitPlannerAny /\ [][NextPlanner]_vars /\ WF_vars(NextPlanner)


InitReaper ==
    /\ InitRequests
    /\ \E ps \in SUBSET RpFiles : dir \in [ps -> RpMtimes]
    /\ now = RpStart
    /\ crashed = FALSE
    /\ ShutdownIdle
    /\ slots = {}
    /\ traffic = "any"
    /\ PlannerIdle
    /\ rpPc = "list"
    /\ rpList = <<>>
    /\ rpRun = NoRun
    /\ rpLog = <<>>
    /\ FormatIdle

NextReaper == ReapBegin \/ ReapFile \/ ReapEnd

\* RpRuns sweeps in succession over every directory of the bounded sets.
SpecReaper == InitReaper /\ [][NextReaper]_vars

InitFormat ==
    /\ InitRequests
    /\ dir = <<>>
    /\ now = 0
    /\ crashed = FALSE
    /\ ShutdownIdle
    /\ slots = {}
    /\ traffic = "any"
    /\ PlannerIdle
    /\ ReaperIdle
    /\ fmPc = "call"
    /\ \/ fmFn = "duration" /\ fmArg \in DurationArgs
       \/ fmFn = "number" /\ fmArg \in CountArgs
    /\ fmRet = <<>>

NextFormat == FormatDurationCall \/ FormatNumberCall

\* formatDuration and formatNumber called on every argument of the bounded sets.
SpecFormat == InitFormat /\ [][NextFormat]_vars

LiveStep(r) ==
    \/ ProcessAudio(r)
    \/ RequestTimeout(r)
    \/ FetchProgress(r)
    \/ WriteFinish(r)
    \/ AudioError(r)
    \/ WriteError(r)
    \/ DownloadTimeout(r)
    \/ FfmpegProgress(r)
    \/ FfmpegEnd(r)
    \/ FfmpegError(r)
    \/ ProcessingTimeout(r)
    \/ StreamData(r)
    \/ StreamEnd(r)
    \/ ClientAbort(r)
    \/ GraceTimeout(r)

NextLive == \E r \in Reqs : LiveStep(r)

\* Node's event loop runs every timer whose delay has elapsed, and a read
\* stream over a finite file that can be read reaches its end.
FairLive ==
    \A r \in Reqs :
        /\ WF_vars(RequestTimeout(r))
        /\ WF_vars(DownloadTimeout(r))
        /\ WF_vars(ProcessingTimeout(r))
        /\ WF_vars(GraceTimeout(r))
        /\ WF_vars(StreamEnd(r))

\* One process-audio request whose timers fire and whose output file can be
\* read; the adapters' own events may or may not arrive.
SpecLive == Init /\ [][NextLive]_vars /\ FairLive

InitShutdown ==
    /\ InitRequests
    /\ \E ps \in SUBSET RpFiles : dir = [p \in ps |-> 0]
    /\ now = 0
    /\ crashed = FALSE
    /\ \E conns \in 0..MaxConns : sd = NoShutdown(conns)
    /\ slots = {}
    /\ traffic = "any"
    /\ PlannerIdle
    /\ ReaperIdle
    /\ FormatIdle

NextShutdown ==
    \/ GracefulShutdown
    \/ ConnectionEnd
    \/ ServerClosed
    \/ ShutdownUnlink
    \/ ShutdownExit
    \/ ShutdownTimeout

\* The event loop runs the 10 s timer once it is due, and the synchronous
\* callback of server.close runs on to its process.exit.
FairShutdown ==
    /\ WF_vars(ShutdownTimeout)
    /\ WF_vars(ShutdownUnlink)
    /\ WF_vars(ShutdownExit)

\* Up to MaxSignals signals sent to a server with up to MaxConns open
\* connections and any files in the temp directory.
SpecShutdown == InitShutdown /\ [][NextShutdown]_vars /\ FairShutdown

(***************************************************************************)
(* Properties.                                                             *)
(***************************************************************************)
Audio(r) == req[r].endpoint = "process"
Timer(r, n) == timer[r][n].st

\* C1: a process-audio request is sent at most one status line: once a
\* response is out no handler sends or attempts another one, and after an
\* error response (the deadline's 408) the audio stream is never started.
C1_AtMostOneResponse ==
    [][\A r \in Reqs : Audio(r) =>
          /\ Len(wire'[r]) <= 1
          /\ ~dblResp'[r]
          /\ HeadersSent(r) => wire'[r] = wire[r]
          /\ (HeadersSent(r) /\ wire[r] # <<200>>) => rd'[r] = "none"]_vars

\* The deadline answered 408 and the pipeline, failing later, stayed silent.
C1_Witness ==
    \E r \in Reqs : /\ Audio(r) /\ Timer(r, "request") = "fired"
                    /\ wire[r] = <<408>> /\ pc[r] = "failed"

\* pitchShift outside [-12,12] or playbackSpeed outside [0.25,2.0]
OutOfRange(q) ==
    \/ q.pitchShift < -12 \/ q.pitchShift > 12
    \/ q.playbackSpeed[1] * 4 < q.playbackSpeed[2]
    \/ q.playbackSpeed[1] > 2 * q.playbackSpeed[2]

\* Nothing was allocated, armed, created or called for request r.
Untouched(r) ==
    /\ r \notin DOMAIN sessionId
    /\ \A n \in TimerNames : timer[r][n] = Unset
    /\ calls[r] = NoCalls
    /\ aud[r] = "none" /\ ffmpeg[r] = "none" /\ getInfo[r] = "none"
    /\ DOMAIN dir = {}

\* C3: a process-audio request with pitchShift or playbackSpeed out of range
\* is answered 400 and nothing is allocated, armed, created or called for it.
C3_OutOfRangeRejected ==
    \A r \in Reqs : (Audio(r) /\ OutOfRange(req[r])) =>
        /\ wire[r] = <<400>>
        /\ pc[r] = "rejected"
        /\ Untouched(r)

\* A well-formed id with a pitch above the range, and one with a speed below it.
C3_Witness ==
    \E r \in Reqs : /\ Audio(r) /\ ~InvalidVideoId(req[r].videoId)
                    /\ wire[r] = <<400>>
                    /\ \/ req[r].pitchShift = 13 /\ ~InvalidSpeed(req[r].playbackSpeed)
                       \/ req[r].playbackSpeed = <<1, 5>> /\ ~InvalidPitch(req[r].pitchShift)

\* The 11-character pattern [A-Za-z0-9_-]{11}
WellFormed(v) == Len(v) = 11 /\ \A i \in 1..Len(v) : v[i] \in IdChars

AtRest(r) == pc[r] \in {"failed", "done", "aborted", "stream_error"}

\* C2: a process-audio request that allocated a session deletes both of its
\* temp files itself on every exit path (failure, timeout, deadline, stream
\* completed, stream errored or aborted): once the request is at rest neither
\* path exists.
C2_CleanupOnEveryExit ==
    \A r \in DOMAIN sessionId : AtRest(r) => SessionFiles(r) \cap DOMAIN dir = {}

\* The paths whose existence or modification time a step changes.
ChangedPaths ==
    {p \in DOMAIN dir \cup DOMAIN dir' :
        \/ p \notin DOMAIN dir
        \/ p \notin DOMAIN dir'
        \/ dir[p] # dir'[p]}

\* The paths of the session request r holds after the step.
PathsAfter(r) ==
    IF r \in DOMAIN sessionId'
    THEN {InputFile(sessionId'[r]), OutputFile(sessionId'[r])}
    ELSE {}

\* Request q is where it was.
Still(q) ==
    /\ pc'[q] = pc[q] /\ wire'[q] = wire[q] /\ timer'[q] = timer[q]
    /\ aud'[q] = aud[q] /\ wr'[q] = wr[q] /\ ffmpeg'[q] = ffmpeg[q] /\ rd'[q] = rd[q]

PathsDistinct ==
    /\ \A r \in DOMAIN sessionId : InputFile(sessionId[r]) # OutputFile(sessionId[r])
    /\ \A r, q \in DOMAIN sessionId : r # q => SessionFiles(r) \cap SessionFiles(q) = {}

\* C5: with concurrent process-audio requests the temp paths in use are
\* pairwise distinct (across sessions, and input against output within one),
\* and every step creates, writes or deletes paths of the one request that
\* took it only.
C5_PathsNeverShared ==
    [][/\ PathsDistinct'
       /\ \E r \in Reqs : /\ ChangedPaths \subseteq PathsAfter(r)
                          /\ \A q \in Reqs \ {r} : Still(q)]_vars

\* One request has failed and deleted its files while the other one streams
\* with both of its files in place.
C5_Witness ==
    \E r, q \in DOMAIN sessionId :
        /\ r # q /\ pc[r] = "failed" /\ pc[q] = "streaming"
        /\ SessionFiles(r) \cap DOMAIN dir = {}
        /\ SessionFiles(q) \subseteq DOMAIN dir

\* An error status is on the wire.
ErrorAnswered(r) == wire[r] # <<>> /\ wire[r][1] >= 400

\* Validating -> Fetching -> Transforming -> Streaming -> Done, and Failed.
PhaseSteps ==
    { <<"idle", "rejected">>, <<"idle", "fetching">>, <<"idle", "failed">>,
      <<"fetching", "transforming">>, <<"fetching", "failed">>,
      <<"transforming", "streaming">>, <<"transforming", "failed">>,
      <<"streaming", "grace">>, <<"streaming", "aborted">>,
      <<"streaming", "stream_error">>, <<"grace", "done">> }

\* The step keeps the order of the phases and calls no adapter twice.
PhaseOrder(r) ==
    /\ pc'[r] # pc[r] => <<pc[r], pc'[r]>> \in PhaseSteps
    /\ calls'[r].fetch <= 1 /\ calls'[r].transform <= 1
    /\ calls'[r].transform > calls[r].transform =>
          /\ fetchP'[r] = "resolved" /\ pc[r] = "fetching" /\ pc'[r] # "streaming"
    /\ (rd[r] = "none" /\ rd'[r] # "none") =>
          /\ fetchP'[r] = "resolved" /\ procP'[r] = "resolved" /\ pc'[r] = "streaming"
    /\ pc'[r] = "streaming" => rd'[r] # "none"

\* The step enters no later phase.
NoLaterPhase(r) ==
    /\ calls'[r] = calls[r]
    /\ rd'[r] = "none"
    /\ pc'[r] \in {pc[r], "failed"}

\* C6 as stated: the phases come in order, each adapter runs at most once,
\* and once the request has failed - also by having been answered with an
\* error status - neither the transform nor the streaming is entered.
C6_FailedAbsorbing ==
    [][\A r \in Reqs : Audio(r)' =>
          /\ PhaseOrder(r)
          /\ (pc[r] = "failed" \/ ErrorAnswered(r)) => NoLaterPhase(r)]_vars

\* C6 as amended: the phases come in order, each adapter runs at most once,
\* a request whose pipeline has failed enters no later phase, and a request
\* answered with an error status never starts streaming (its transform may
\* still be started when the fetch completes after the deadline's answer).
C6_PhaseOrder ==
    [][\A r \in Reqs : Audio(r)' =>
          /\ PhaseOrder(r)
          /\ pc[r] = "failed" => (NoLaterPhase(r) /\ pc'[r] = "failed")
          /\ ErrorAnswered(r) => rd'[r] = "none" /\ pc'[r] # "streaming"]_vars

\* Answered 408 by the deadline, the request still ran both adapters and
\* ended in the catch block without streaming.
C6_Witness ==
    \E r \in Reqs : /\ Audio(r) /\ wire[r] = <<408>> /\ calls[r].transform = 1
                    /\ procP[r] = "resolved" /\ failKind[r] = "set_header"
                    /\ pc[r] = "failed" /\ rd[r] = "none"

\* The pipeline has its own outcome: both adapters succeeded or one failed.
PipelineFinished(r) ==
    \/ fetchP[r] = "resolved" /\ procP[r] = "resolved"
    \/ fetchP[r] = "rejected"
    \/ procP[r] = "rejected"

\* C7: when the whole-request deadline expires with no response sent, the
\* request is answered 408; the deadline timer is no longer armed once the
\* pipeline has its outcome, so no deadline fires after it.
C7_Deadline ==
    [][\A r \in Reqs : Audio(r)' =>
          /\ (Timer(r, "request") = "armed" /\ Timer(r, "request")' = "fired") =>
                /\ ~PipelineFinished(r)
                /\ wire[r] = <<>> => wire'[r] = <<408>>
          /\ PipelineFinished(r)' => Timer(r, "request")' # "armed"
          /\ PipelineFinished(r) => Timer(r, "request")' = Timer(r, "request")]_vars

\* The deadline has answered 408 while the transcoder is still running.
C7_Witness ==
    \E r \in Reqs : /\ Audio(r) /\ Timer(r, "request") = "fired"
                    /\ wire[r] = <<408>> /\ pc[r] = "transforming"
                    /\ ffmpeg[r] = "running"

\* The status the failure kinds call for.
KindStatus(kind) ==
    CASE kind = "unavailable" -> 404
      [] kind \in {"fetch_timeout", "transform_timeout"} -> 408
      [] OTHER -> 500

\* C8: a failed pipeline that finds no response sent answers by the kind of
\* the failure alone: source unavailable 404; fetch or transform timeout 408
\* (as the deadline does); everything else 500; never a 2xx status.
C8_StatusByKind ==
    \A r \in Reqs : (Audio(r) /\ pc[r] = "failed") =>
        /\ wire[r] # <<>> /\ wire[r][1] >= 400
        /\ wire[r] = IF Timer(r, "request") = "fired" THEN <<408>>
                     ELSE <<KindStatus(failKind[r])>>

\* The request still has events of its own to come.
Live(r) == pc[r] \in {"fetching", "transforming", "streaming", "grace"}

\* C9: a sweep of the Reaper deletes no temp file of a request that is
\* fetching, transforming, streaming or in its grace delay, and deletes only
\* files older than the threshold.
C9_ReaperSparesLive ==
    [][now' # now =>
          /\ \A p \in DOMAIN dir \ DOMAIN dir' : now' - dir[p] > CleanupAgeMs
          /\ \A r \in DOMAIN sessionId :
                Live(r) => SessionFiles(r) \cap DOMAIN dir \subseteq DOMAIN dir']_vars

\* The atempo steps of the finished plan.
TempoSteps == SelectSeq(plFilters, LAMBDA f : f.f = "atempo")

RECURSIVE RatioProduct(_)
RatioProduct(steps) ==
    IF steps = <<>> THEN One
    ELSE MulF(Head(steps).ratio, RatioProduct(Tail(steps)))

\* C10: speed 1 yields no tempo step; otherwise every step ratio lies in
\* [0.5, 2], every step before the last is exactly 2 (speed > 2) or exactly
\* 0.5 (speed < 0.5), and the product of the ratios is the requested speed.
C10_TempoDecomposition ==
    plPc = "done" =>
        LET s == plIn.playbackSpeed
            steps == TempoSteps
            n == Len(steps)
        IN  /\ EqF(s, One) => n = 0
            /\ ~EqF(s, One) => n >= 1
            /\ \A i \in 1..n : /\ ~Lt(steps[i].ratio, <<1, 2>>)
                               /\ ~Gt(steps[i].ratio, <<2, 1>>)
            /\ \A i \in 1..(n - 1) :
                  /\ Gt(s, <<2, 1>>) \/ Lt(s, <<1, 2>>)
                  /\ Gt(s, <<2, 1>>) => EqF(steps[i].ratio, <<2, 1>>)
                  /\ Lt(s, <<1, 2>>) => EqF(steps[i].ratio, <<1, 2>>)
            /\ EqF(RatioProduct(steps), s)

\* Speed 3.0 planned as [2, 1.5].
C10_Witness ==
    /\ plPc = "done"
    /\ EqF(plIn.playbackSpeed, <<3, 1>>)
    /\ Len(TempoSteps) = 2
    /\ EqF(TempoSteps[1].ratio, <<2, 1>>)
    /\ EqF(TempoSteps[2].ratio, <<3, 2>>)

\* The asetrate filters of the finished plan.
PitchSteps == SelectSeq(plFilters, LAMBDA f : f.f = "asetrate")

\* C11: the chain holds exactly one pitch filter when pitchShift is not 0 and
\* none when it is 0; the pitch filter comes first, before every tempo step;
\* the chain is empty exactly when pitchShift = 0 and speed = 1; and the chain
\* is handed to the transcoder (once) only when it is not empty.
C11_ChainShape ==
    plPc = "done" =>
        /\ Len(PitchSteps) = (IF plIn.pitchShift = 0 THEN 0 ELSE 1)
        /\ plIn.pitchShift # 0 =>
              /\ plFilters[1] = PitchFilter(plIn.pitchShift)
              /\ \A i \in 2..Len(plFilters) : plFilters[i].f = "atempo"
        /\ plFilters = PitchSteps \o TempoSteps
        /\ (plFilters = <<>>) <=> (plIn.pitchShift = 0 /\ EqF(plIn.playbackSpeed, One))
        /\ plCmd = (IF plFilters = <<>> THEN <<>> ELSE <<plFilters>>)

\* A downward shift at speed 0.25: the pitch filter, then two steps of 0.5,
\* handed to the transcoder.
C11_Witness ==
    /\ plPc = "done"
    /\ plIn.pitchShift = -12 /\ EqF(plIn.playbackSpeed, <<1, 4>>)
    /\ Len(plFilters) = 3 /\ plFilters[1].f = "asetrate"
    /\ plCmd = <<plFilters>>

Settled(p) == p \in {"resolved", "rejected"}

\* C12: the fetch timeout expires only on a download that has neither
\* finished nor errored; it destroys the inbound stream and the file writer
\* and fails the fetch with the timeout error; the fetch has one outcome,
\* which no later event changes, and the timeout never fires on a fetch that
\* has succeeded.
C12_FetchTimeout ==
    [][\A r \in Reqs : Audio(r)' =>
          /\ (Timer(r, "download") = "armed" /\ Timer(r, "download")' = "fired") =>
                /\ fetchP[r] = "pending" /\ aud[r] = "open" /\ wr[r] = "open"
                /\ aud'[r] = "destroyed" /\ wr'[r] = "destroyed"
                /\ fetchP'[r] = "rejected"
                /\ failKind'[r] = "fetch_timeout"
                /\ calls'[r] = calls[r]
          /\ Settled(fetchP[r]) =>
                /\ fetchP'[r] = fetchP[r]
                /\ Timer(r, "download")' = Timer(r, "download")
                /\ Timer(r, "download") # "armed"
          /\ (fetchP[r] = "resolved" \/ fetchP'[r] = "resolved") =>
                Timer(r, "download")' = "cleared"]_vars

\* The fetch timeout has fired: both streams destroyed, the fetch rejected.
C12_Witness ==
    \E r \in Reqs : /\ Audio(r) /\ Timer(r, "download") = "fired"
                    /\ aud[r] = "destroyed" /\ wr[r] = "destroyed"
                    /\ fetchP[r] = "rejected" /\ failKind[r] = "fetch_timeout"

\* C13: when the processing timeout expires on a transcoder that has neither
\* ended nor errored, the subprocess is killed and the transform fails with
\* the timeout error; the request stands answered 408, also after the killed
\* subprocess has reported its error; the transform has one outcome, which
\* no later event changes.
C13_TransformTimeout ==
    [][\A r \in Reqs : Audio(r)' =>
          /\ (Timer(r, "processing") = "armed" /\ Timer(r, "processing")' = "fired"
                /\ ffmpeg[r] = "running") =>
                /\ procP[r] = "pending"
                /\ ffmpeg'[r] = "killed"
                /\ procP'[r] = "rejected"
                /\ failKind'[r] = "transform_timeout"
                /\ pc'[r] = "failed"
                /\ wire'[r] = <<408>>
          /\ Settled(procP[r]) => procP'[r] = procP[r]
          /\ procP[r] = "rejected" => (failKind'[r] = failKind[r] /\ wire'[r] = wire[r])
          /\ failKind'[r] = "transform_timeout" => wire'[r] = <<408>>]_vars

\* The subprocess killed by the timeout has reported its error afterwards.
C13_Witness ==
    \E r \in Reqs : /\ Audio(r) /\ Timer(r, "processing") = "fired"
                    /\ ffmpeg[r] = "errored" /\ failKind[r] = "transform_timeout"
                    /\ procP[r] = "rejected" /\ wire[r] = <<408>>

\* C14: the expiry of the whole-request deadline sends the 408 and changes
\* nothing else: the fetch and the transform in flight, their streams, the
\* subprocess, the adapters' timers and the temp files are as they were.
C14_DeadlineFrame ==
    [][\A r \in Reqs :
          (Timer(r, "request") = "armed" /\ Timer(r, "request")' = "fired") =>
             /\ wire'[r] = <<408>>
             /\ pc' = pc /\ pc[r] \in {"fetching", "transforming"}
             /\ fetchP' = fetchP /\ procP' = procP
             /\ aud' = aud /\ wr' = wr /\ ffmpeg' = ffmpeg /\ rd' = rd
             /\ \A n \in TimerNames \ {"request"} : timer'[r][n] = timer[r][n]
             /\ \A q \in Reqs \ {r} : timer'[q] = timer[q] /\ wire'[q] = wire[q]
             /\ dir' = dir
             /\ calls' = calls /\ failKind' = failKind /\ sessionId' = sessionId]_vars

\* The deadline has answered while the download goes on: its streams are
\* open, its own timer is armed and the input file is in place.
C14_Witness ==
    \E r \in Reqs : /\ Timer(r, "request") = "fired" /\ wire[r] = <<408>>
                    /\ pc[r] = "fetching" /\ aud[r] = "open" /\ wr[r] = "open"
                    /\ Timer(r, "download") = "armed"
                    /\ InputFile(sessionId[r]) \in DOMAIN dir

\* C15: in a sweep that could list the directory, a file whose stat or unlink
\* fails stops nothing: every listed file is examined, and the sweep leaves
\* exactly the files that failed or are not older than the threshold; a
\* sweep that could not list the directory changes nothing; no sweep brings
\* the process down.
C15_ReaperIsolation ==
    /\ ~crashed
    /\ \A k \in 1..Len(rpLog) :
          LET run == rpLog[k].run
          IN  /\ run.listed => run.seen = DOMAIN run.before
              /\ run.listed => rpLog[k].after = Sweep(run.before, run.at, run.failed)
              /\ ~run.listed => rpLog[k].after = run.before

\* The first file of the listing failed and a later old file was deleted in
\* the same sweep.
C15_Witness ==
    /\ Len(rpLog) >= 1
    /\ LET run == rpLog[1].run
       IN  /\ InputFile(1) \in run.failed
           /\ TooOld(run.before[InputFile(1)], run.at)
           /\ \E p \in DOMAIN run.before \ DOMAIN rpLog[1].after : p # InputFile(1)

\* No deletion failed in either sweep and no file came over the threshold
\* between them.
QuietBetween(a, b) ==
    /\ a.run.listed /\ b.run.listed
    /\ a.run.failed = {} /\ b.run.failed = {}
    /\ b.run.before = a.after
    /\ \A p \in DOMAIN a.after :
          (b.run.at - a.after[p] > CleanupAgeMs) => (a.run.at - a.after[p] > CleanupAgeMs)

\* C16: of two sweeps run in succession, with no file written, no deletion
\* failing and no file coming over the threshold in between, the second one
\* deletes nothing; and no sweep deletes a file whose age is at most the
\* threshold.
C16_ReaperIdempotent ==
    /\ \A k \in 1..(Len(rpLog) - 1) :
          QuietBetween(rpLog[k], rpLog[k + 1]) => rpLog[k + 1].after = rpLog[k].after
    /\ \A k \in 1..Len(rpLog) :
          \A p \in DOMAIN rpLog[k].run.before \ DOMAIN rpLog[k].after :
              rpLog[k].run.at - rpLog[k].run.before[p] > CleanupAgeMs

\* The first sweep deleted a file and kept one of the age of the threshold;
\* the second sweep, run at the same time, found nothing to delete.
C16_Witness ==
    /\ Len(rpLog) >= 2
    /\ QuietBetween(rpLog[1], rpLog[2])
    /\ DOMAIN rpLog[1].after # DOMAIN rpLog[1].run.before
    /\ \E p \in DOMAIN rpLog[1].after :
          rpLog[1].run.at - rpLog[1].after[p] = CleanupAgeMs
    /\ rpLog[2].run.seen = DOMAIN rpLog[1].after
    /\ rpLog[2].after = rpLog[1].after

\* The status each outcome of the metadata lookup calls for.
InfoKindStatus(kind) ==
    CASE kind = "info_timeout" -> 408
      [] kind = "unavailable"  -> 404
      [] kind = "too_long"     -> 400
      [] kind = "ok"           -> 200
      [] OTHER                 -> 500

\* C17: a video-info request with a well-formed id gets exactly one response:
\* 408 when the timeout wins the race, 404 when the lookup reports the source
\* unavailable, 400 when the duration is over the maximum, 500 for any other
\* lookup failure, else the success body; what arrives after the answer
\* produces no second response.
C17_InfoStatus ==
    \A r \in Reqs : (req[r].endpoint = "info" /\ WellFormed(req[r].videoId)) =>
        /\ Len(wire[r]) <= 1 /\ ~dblResp[r]
        /\ pc[r] = "info_done" => wire[r] = <<InfoKindStatus(failKind[r])>>
        /\ pc[r] = "info" => wire[r] = <<>>

\* Nothing the server holds for request q changes in the step.
SameRequest(q) ==
    /\ pc'[q] = pc[q] /\ req'[q] = req[q] /\ wire'[q] = wire[q]
    /\ dblResp'[q] = dblResp[q] /\ timer'[q] = timer[q]
    /\ fetchP'[q] = fetchP[q] /\ procP'[q] = procP[q]
    /\ aud'[q] = aud[q] /\ wr'[q] = wr[q] /\ ffmpeg'[q] = ffmpeg[q] /\ rd'[q] = rd[q]
    /\ getInfo'[q] = getInfo[q] /\ failKind'[q] = failKind[q]
    /\ calls'[q] = calls[q] /\ cmdFilters'[q] = cmdFilters[q]
    /\ (q \in DOMAIN sessionId) = (q \in DOMAIN sessionId')
    /\ q \in DOMAIN sessionId => sessionId'[q] = sessionId[q]

\* The two paths of the session of request r.
OwnPaths(r) == {<<sessionId[r], "_input.webm">>, <<sessionId[r], "_output.mp3">>}

\* C18: the cleanup of a request, on the failure path and after the grace
\* delay, removes the two paths of its own session and leaves every other
\* file as it was; and a step of one request changes nothing held for any
\* other request, the temp directory aside.
C18_CleanupFrame ==
    [][/\ \E r \in Reqs : \A q \in Reqs \ {r} : SameRequest(q)
       /\ \A r \in DOMAIN sessionId :
             (pc'[r] # pc[r] /\ pc'[r] \in {"failed", "done"}) =>
                /\ OwnPaths(r) \cap DOMAIN dir' = {}
                /\ \A p \in DOMAIN dir \ OwnPaths(r) :
                      p \in DOMAIN dir' /\ dir'[p] = dir[p]
                /\ DOMAIN dir' \subseteq DOMAIN dir
                /\ \A q \in Reqs \ {r} : SameRequest(q)]_vars

\* One request has deleted its files after the grace delay while the other
\* one streams with both of its files in place.
C18_Witness ==
    \E r, q \in DOMAIN sessionId :
        /\ r # q /\ pc[r] = "done" /\ Timer(r, "grace") = "fired"
        /\ OwnPaths(r) \cap DOMAIN dir = {}
        /\ pc[q] = "streaming" /\ OwnPaths(q) \subseteq DOMAIN dir

RECURSIVE SplitAt(_, _)
\* The fields of str between the occurrences of the character c.
SplitAt(str, c) ==
    IF \A i \in 1..Len(str) : str[i] # c THEN <<str>>
    ELSE LET i == CHOOSE j \in 1..Len(str) :
                      str[j] = c /\ \A k \in 1..(j - 1) : str[k] # c
         IN  <<SubSeq(str, 1, i - 1)>> \o SplitAt(SubSeq(str, i + 1, Len(str)), c)

IsDigits(str) ==
    /\ str # <<>>
    /\ \A i \in 1..Len(str) : \E d \in 1..10 : DigitChars[d] = str[i]

RECURSIVE DecimalValue(_)
\* The number a string of decimal digits denotes.
DecimalValue(str) ==
    IF str = <<>> THEN 0
    ELSE 10 * DecimalValue(SubSeq(str, 1, Len(str) - 1))
           + (CHOOSE d \in 0..9 : DigitChars[d + 1] = str[Len(str)])

\* Decimal digits with no padding.
Unpadded(str) == IsDigits(str) /\ (Len(str) > 1 => str[1] # "0")
\* Decimal digits padded with zeros to two places.
TwoPlaces(str) == IsDigits(str) /\ Len(str) = 2

\* C19: formatDuration(s) is "M:SS" for s < 3600 and "H:MM:SS" from 3600 on,
\* with H = s div 3600 and the short M unpadded, MM and SS of two digits, and
\* H*3600 + M*60 + SS = s.
C19_FormatDuration ==
    (fmPc = "done" /\ fmFn = "duration") =>
        LET f == SplitAt(fmRet, ":")
        IN  IF fmArg < 3600
            THEN /\ Len(f) = 2
                 /\ Unpadded(f[1]) /\ TwoPlaces(f[2])
                 /\ DecimalValue(f[1]) = fmArg \div 60
                 /\ DecimalValue(f[2]) = fmArg % 60
                 /\ DecimalValue(f[1]) * 60 + DecimalValue(f[2]) = fmArg
            ELSE /\ Len(f) = 3
                 /\ Unpadded(f[1]) /\ TwoPlaces(f[2]) /\ TwoPlaces(f[3])
                 /\ DecimalValue(f[1]) = fmArg \div 3600
                 /\ DecimalValue(f[2]) = (fmArg % 3600) \div 60
                 /\ DecimalValue(f[3]) = fmArg % 60
                 /\ DecimalValue(f[1]) * 3600 + DecimalValue(f[2]) * 60
                       + DecimalValue(f[3]) = fmArg

\* 3725 seconds came out as "1:02:05".
C19_Witness ==
    /\ fmPc = "done" /\ fmFn = "duration" /\ fmArg = 3725
    /\ fmRet = <<"1", ":", "0", "2", ":", "0", "5">>

\* The power of ten an abbreviated count is scaled by, in tenths.
TenthOf(suffix) ==
    CASE suffix = "K" -> 100
      [] suffix = "M" -> 100000
      [] suffix = "B" -> 100000000

\* C20: formatNumber(n) is the plain digits of n below 1000; from 1000 on it
\* is n scaled by 10^3 (K, below 10^6), 10^6 (M, below 10^9) or 10^9 (B),
\* rounded to one decimal place, and the mantissa of a K or M result is
\* below 1000.
C20_FormatNumber ==
    (fmPc = "done" /\ fmFn = "number") =>
        IF fmArg < 1000
        THEN Unpadded(fmRet) /\ DecimalValue(fmRet) = fmArg
        ELSE LET suffix == fmRet[Len(fmRet)]
                 m == SplitAt(SubSeq(fmRet, 1, Len(fmRet) - 1), ".")
             IN  /\ suffix = (IF fmArg < 1000000 THEN "K"
                              ELSE IF fmArg < 1000000000 THEN "M" ELSE "B")
                 /\ Len(m) = 2 /\ Unpadded(m[1]) /\ IsDigits(m[2]) /\ Len(m[2]) = 1
                 /\ LET tenths == 10 * DecimalValue(m[1]) + DecimalValue(m[2])
                        near == tenths * TenthOf(suffix) - fmArg
                    IN  /\ 2 * near <= TenthOf(suffix)
                        /\ -2 * near <= TenthOf(suffix)
                 /\ suffix \in {"K", "M"} => DecimalValue(m[1]) < 1000


\* C21: with timers firing and the output file readable, every process-audio
\* request that passes validation is eventually sent a status line, unless
\* its client has closed the connection first; its fetch step eventually
\* settles, and its transform step, once started, eventually settles.
C21_Liveness ==
    \A r \in Reqs :
        /\ (Audio(r) /\ pc[r] = "fetching")
               ~> (wire[r] # <<>> \/ pc[r] = "aborted")
        /\ (Audio(r) /\ fetchP[r] = "pending") ~> Settled(fetchP[r])
        /\ (Audio(r) /\ procP[r] = "pending") ~> Settled(procP[r])

\* A request whose fetch and transform both ran to the end and whose audio
\* was streamed completely.
C21_Witness ==
    \E r \in Reqs : /\ Audio(r) /\ fetchP[r] = "resolved"
                    /\ procP[r] = "resolved" /\ wire[r] = <<200>>
                    /\ rd[r] = "ended"


\* The pipeline of a request has terminated: its response was streamed to
\* the end, or its failure was answered.
Terminated(r) ==
    \/ pc[r] \in {"grace", "done"}
    \/ pc[r] = "failed" /\ wire[r] # <<>>

RequestTimers == {"request", "download", "processing"}

\* C22: once the pipeline of a process-audio request has terminated, none of
\* the deadline, the fetch timeout and the processing timeout is still armed
\* on its behalf, and the processing timeout never fires on a transcoder
\* that has already ended or errored.
C22_NoLeakedTimers ==
    [][\A r \in Reqs : Audio(r) =>
          /\ Terminated(r)' => \A n \in RequestTimers : Timer(r, n)' # "armed"
          /\ ffmpeg[r] \in {"ended", "errored"} =>
                ~(Timer(r, "processing") = "armed"
                    /\ Timer(r, "processing")' = "fired")]_vars


\* validation lets the speed through (lines 180-182)
Accepted == ~InvalidSpeed(plIn.playbackSpeed)

\* C23: on every speed validation accepts, with any accepted pitch, the
\* Filter Planner terminates: the x2 loop runs zero times, the x0.5 loop at
\* most once, and at most two tempo steps are emitted; a speed of zero or
\* less is one validation rejects, and on it the planner never gets past
\* its loops.
C23_PlannerTerminates ==
    /\ [](Accepted => (plIter.above = 0 /\ plIter.below <= 1 /\ Len(TempoSteps) <= 2))
    /\ \A s \in AnySpeeds :
          (plIn.playbackSpeed = s /\ ~InvalidSpeed(s)) ~> (plPc = "done")
    /\ [](plIn.playbackSpeed[1] <= 0 =>
             (~Accepted /\ plPc \in {"pitch", "above", "below"}))

\* An accepted speed below one half: the x0.5 loop ran once and the planner
\* finished with two tempo steps.
C23_Witness ==
    /\ Accepted /\ plPc = "done"
    /\ plIter = [above |-> 0, below |-> 1]
    /\ Len(TempoSteps) = 2


\* The listed file at position i was not reached: an earlier file, or this
\* one, failed to be deleted.
CutShort(i) == \E j \in 1..i : sd.listed[j] \in sd.failed

\* C24: after SIGTERM or SIGINT the process eventually exits, once, with
\* code 0 or 1.  It exits with 0 only after the server has closed and the
\* cleanup pass over the temp directory has run: every listed file is gone
\* up to the first one whose deletion failed, and that file and the ones
\* listed after it are still there.  It exits with 1 only from the 10 s
\* timer, before the cleanup pass has started.
C24_GracefulShutdown ==
    /\ (sd.signals # <<>>) ~> (sd.exit # <<>>)
    /\ [](sd.exit \in {<<>>, <<0>>, <<1>>})
    /\ [](sd.exit # <<>> => sd.signals # <<>>)
    /\ [](sd.exit = <<0>> =>
             (/\ sd.conns = 0
              /\ sd.started
              /\ \A i \in 1..Len(sd.listed) :
                    sd.listed[i] \in DOMAIN dir <=> CutShort(i)))
    /\ [](sd.exit = <<1>> => (sd.timers > 0 /\ ~sd.started))
    /\ [][sd.exit # <<>> => UNCHANGED <<sd, dir>>]_vars

\* Exit code 0 after a pass that deleted a file, failed on the next one and
\* left a third one untouched.
C24_Witness ==
    /\ sd.exit = <<0>>
    /\ Len(sd.listed) = 3
    /\ sd.failed = {sd.listed[2]}
    /\ DOMAIN dir = {sd.listed[2], sd.listed[3]}

=============================================================================
